---- MODULE Spec2Model ----
(***************************************************************************)
(* CycloneDDS throughput benchmark: scripts/dds_pub.py (publisher) and     *)
(* scripts/dds_sub.py (subscriber), joined by the DDS transport.           *)
(*                                                                         *)
(* Time: time.perf_counter() is read as the variable now, counted in whole *)
(* seconds; Tick is the passage of one second.  A time.sleep(d) returns no *)
(* earlier than d seconds after it was called.  Rates and percentages are  *)
(* exact fractions <<numerator, denominator>>; float('inf') is <<1, 0>>.   *)
(* None is the empty tuple <<>>, a value v that is set is <<v>>.           *)
(***************************************************************************)
EXTENDS Integers, Sequences, FiniteSets, TLC

\* ---------------------------------------------------------------- bounds
MaxCount == 2
MaxSize == 1
MaxInterval == 2
MaxTimeout == 1
MaxTime == 5
MaxData == 2
MaxNotices == 1

\* ------------------------------------------------------- program constants
PreRollSeconds == 2
DrainSeconds == 1
TakeBatch == 1000
Percent == 100
BytesPerMiB == 1024 * 1024
BitsPerByte == 8
ByteValues == 256

VARIABLES
    now,              \* time.perf_counter()
    \* transport
    queue,            \* samples pending in the DataReader's history
    arrivedData,      \* data samples the transport has put into that history
    arrivedNotices,   \* invalid (lifecycle) samples it has put there
    arrivedSizes,     \* the payload lengths of the data samples it has put there
    \* publisher (dds_pub.py)
    pubArgs,          \* args: size, count, rate, qos
    pubPc, msg, interval, start_time, i, sleep_time, pubWake, sendLog, pubResult,
    \* subscriber (dds_sub.py)
    subArgs,          \* args: count, timeout
    subPc, received_count, total_bytes, first_msg_time, last_msg_time,
    start_wait, samples, timedOut, subResult

transportVars == <<queue, arrivedData, arrivedNotices, arrivedSizes>>
pubVars == <<pubArgs, pubPc, msg, interval, start_time, i, sleep_time, pubWake, sendLog,
             pubResult>>
subVars == <<subArgs, subPc, received_count, total_bytes, first_msg_time,
             last_msg_time, start_wait, samples, timedOut, subResult>>
vars == <<now, transportVars, pubVars, subVars>>

\* ----------------------------------------------------------------- values
None == <<>>
Some(v) == <<v>>
Inf == <<1, 0>>
Zero == <<0, 1>>

\* a / b of two numbers, as a fraction
Frac(a, b) == <<a, b>>
\* x / n and x * n of a fraction (inf stays inf)
FracDiv(x, n) == IF x[2] = 0 THEN x ELSE <<x[1], x[2] * n>>
FracMul(x, n) == IF x[2] = 0 THEN x ELSE <<x[1] * n, x[2]>>
\* equality of the numbers two fractions denote
FracEq(x, y) == IF x[2] = 0 \/ y[2] = 0 THEN x[2] = y[2] ELSE x[1] * y[2] = y[1] * x[2]

\* Python truthiness of an Optional[float]
Truthy(t) == t # None /\ t[1] # 0

Min(a, b) == IF a <= b THEN a ELSE b

Qos == {"reliable", "high-throughput", "best-effort"}
\* --rate: 0 (unlimited) or 1/n messages per second
Rates == {<<0, 1>>} \cup {<<1, n>> : n \in 1..MaxInterval}

\* ------------------------------------------------------------ dds_pub.py
\* the index itself where the code has the index modulo 256
make_data_bytes_NoWrap(size) == [k \in 1..size |-> k - 1]
make_data_bytes(size) == [k \in 1..size |-> (k - 1) % 256]

BenchmarkData(data) == [isData |-> TRUE, data |-> data]
\* what the reader hands out for a disposed / unregistered instance
InvalidSample == [isData |-> FALSE, data |-> <<>>]

Interval(rate) == IF rate[1] > 0 THEN rate[2] \div rate[1] ELSE 0

\* the schedule counted from the index instead of the index + 1
Expected_FromZero(idx, ival) == idx * ival
Expected(idx, ival) == (idx + 1) * ival
\* the wait counted against one interval instead of the absolute schedule
SleepTime_Relative(idx, ival, elapsed) == ival - elapsed
SleepTime(idx, ival, elapsed) == Expected(idx, ival) - elapsed

\* lines 71-79: build the message, start the two-second wait for a subscriber
PubStart ==
    /\ pubPc = "start"
    /\ msg' = BenchmarkData(make_data_bytes(pubArgs.size))
    /\ pubWake' = now + PreRollSeconds
    /\ pubPc' = "connecting"
    /\ UNCHANGED <<now, transportVars, subVars, pubArgs, sleep_time, interval,
                   start_time, i, sendLog, pubResult>>

\* lines 79-92: the wait is over; choose the interval, take start_time
PubBegin ==
    /\ pubPc = "connecting"
    /\ now >= pubWake
    /\ interval' = Interval(pubArgs.rate)
    /\ start_time' = Some(now)
    /\ i' = 0
    /\ pubPc' = "loop"
    /\ UNCHANGED <<now, transportVars, subVars, pubArgs, sleep_time, msg, pubWake,
                   sendLog, pubResult>>

\* the pacing step entered whatever the interval
AfterWrite_AlwaysPace ==
    IF interval >= 0
    THEN pubPc' = "pace" /\ i' = i
    ELSE pubPc' = "loop" /\ i' = i + 1

\* after writer.write(msg) returned: line 94
AfterWrite ==
    IF interval > 0
    THEN pubPc' = "pace" /\ i' = i
    ELSE pubPc' = "loop" /\ i' = i + 1

\* line 93, the sample reaches the reader's history
PubWrite ==
    /\ pubPc = "loop"
    /\ i < pubArgs.count
    /\ sendLog' = Append(sendLog, [idx |-> i, at |-> now, ok |-> TRUE])
    /\ queue' = Append(queue, msg)
    /\ arrivedData' = arrivedData + 1
    /\ arrivedSizes' = arrivedSizes \cup {Len(msg.data)}
    /\ AfterWrite
    /\ UNCHANGED <<now, arrivedNotices, subVars, pubArgs, sleep_time, msg, interval,
                   start_time, pubWake, pubResult>>

\* line 93, a best-effort transport drops the sample on the way
PubWriteLost ==
    /\ pubPc = "loop"
    /\ i < pubArgs.count
    /\ pubArgs.qos # "reliable"
    /\ sendLog' = Append(sendLog, [idx |-> i, at |-> now, ok |-> TRUE])
    /\ AfterWrite
    /\ UNCHANGED <<now, transportVars, subVars, pubArgs, sleep_time, msg, interval,
                   start_time, pubWake, pubResult>>

\* the exception swallowed: the loop goes on with the next message
PubWriteFail_Swallowed ==
    /\ pubPc = "loop"
    /\ i < pubArgs.count
    /\ sendLog' = Append(sendLog, [idx |-> i, at |-> now, ok |-> FALSE])
    /\ AfterWrite
    /\ UNCHANGED <<now, transportVars, subVars, pubArgs, sleep_time, msg, interval,
                   start_time, pubWake, pubResult>>

\* line 93, writer.write raises: nothing in main() catches it
PubWriteFail ==
    /\ pubPc = "loop"
    /\ i < pubArgs.count
    /\ sendLog' = Append(sendLog, [idx |-> i, at |-> now, ok |-> FALSE])
    /\ pubPc' = "failed"
    /\ UNCHANGED <<now, transportVars, subVars, pubArgs, sleep_time, msg, interval,
                   start_time, i, pubWake, pubResult>>

\* no wait after the last send
PubPace_NotAfterLast ==
    /\ pubPc = "pace"
    /\ LET elapsed == now - start_time[1]
       IN sleep_time' = SleepTime(i, interval, elapsed)
    /\ IF sleep_time' > 0 /\ i < pubArgs.count - 1
       THEN /\ pubWake' = now + sleep_time'
            /\ pubPc' = "sleeping"
            /\ i' = i
       ELSE /\ pubWake' = pubWake
            /\ pubPc' = "loop"
            /\ i' = i + 1
    /\ UNCHANGED <<now, transportVars, subVars, pubArgs, msg, interval, start_time,
                   sendLog, pubResult>>

\* lines 94-100: sleep up to the absolute schedule, or go on at once
PubPace ==
    /\ pubPc = "pace"
    /\ LET elapsed == now - start_time[1]
       IN sleep_time' = SleepTime(i, interval, elapsed)
    /\ IF sleep_time' > 0
       THEN /\ pubWake' = now + sleep_time'
            /\ pubPc' = "sleeping"
            /\ i' = i
       ELSE /\ pubWake' = pubWake
            /\ pubPc' = "loop"
            /\ i' = i + 1
    /\ UNCHANGED <<now, transportVars, subVars, pubArgs, msg, interval, start_time,
                   sendLog, pubResult>>

\* line 100: time.sleep(sleep_time) returns
PubWakeUp ==
    /\ pubPc = "sleeping"
    /\ now >= pubWake
    /\ pubPc' = "loop"
    /\ i' = i + 1
    /\ UNCHANGED <<now, transportVars, subVars, pubArgs, sleep_time, msg, interval,
                   start_time, pubWake, sendLog, pubResult>>

\* lines 102-109: the publisher's figures; elapsed = 0 is a ZeroDivisionError
PubThroughput(count, size, elapsed) ==
    LET total_bytes_sent == size * count
        throughput_msgs == Frac(count, elapsed)
        throughput_bytes == Frac(total_bytes_sent, elapsed)
        throughput_mbps == FracDiv(throughput_bytes, BytesPerMiB)
    IN [elapsed |-> elapsed, sent |-> count, msgs |-> throughput_msgs,
        mbps |-> throughput_mbps, mbits |-> FracMul(throughput_mbps, BitsPerByte)]

\* lines 92, 102-120: the loop is over; results, then the drain wait if reliable
PubFinish ==
    /\ pubPc = "loop"
    /\ i >= pubArgs.count
    /\ LET elapsed == now - start_time[1]
       IN IF elapsed = 0
          THEN /\ pubPc' = "crashed"
               /\ UNCHANGED <<pubResult, pubWake>>
          ELSE /\ pubResult' = Some(PubThroughput(pubArgs.count, pubArgs.size, elapsed))
               /\ IF pubArgs.qos = "reliable"
                  THEN pubWake' = now + DrainSeconds /\ pubPc' = "draining"
                  ELSE pubWake' = pubWake /\ pubPc' = "done"
    /\ UNCHANGED <<now, transportVars, subVars, pubArgs, sleep_time, msg, interval,
                   start_time, i, sendLog>>

\* line 120: the drain wait is over, main() returns
PubDrained ==
    /\ pubPc = "draining"
    /\ now >= pubWake
    /\ pubPc' = "done"
    /\ UNCHANGED <<now, transportVars, subVars, pubArgs, sleep_time, msg, interval,
                   start_time, i, pubWake, sendLog, pubResult>>

\* ------------------------------------------------------------ dds_sub.py
\* the loop condition off by one: <= where the code has <
SubLoop_OffByOne ==
    /\ subPc = "while"
    /\ IF received_count <= subArgs.count
       THEN IF now - start_wait[1] > subArgs.timeout
            THEN timedOut' = TRUE /\ subPc' = "calc"
            ELSE timedOut' = timedOut /\ subPc' = "take"
       ELSE timedOut' = timedOut /\ subPc' = "calc"
    /\ UNCHANGED <<now, transportVars, pubVars, subArgs, received_count, total_bytes,
                   first_msg_time, last_msg_time, start_wait, samples, subResult>>

\* lines 79-83: the loop condition, then the timeout check
SubLoop ==
    /\ subPc = "while"
    /\ IF received_count < subArgs.count
       THEN IF now - start_wait[1] > subArgs.timeout
            THEN timedOut' = TRUE /\ subPc' = "calc"
            ELSE timedOut' = timedOut /\ subPc' = "take"
       ELSE timedOut' = timedOut /\ subPc' = "calc"
    /\ UNCHANGED <<now, transportVars, pubVars, subArgs, received_count, total_bytes,
                   first_msg_time, last_msg_time, start_wait, samples, subResult>>

\* reader.take(n): up to n samples, oldest first, removed from the history
Take(q, n) == SubSeq(q, 1, Min(n, Len(q)))
\* a read in place of a take: the batch stays in the history
AfterTake_Keep(q, n) == q
AfterTake(q, n) == SubSeq(q, Min(n, Len(q)) + 1, Len(q))

\* first_msg_time assigned for every sample, not only while it is None
ProcessSample_FirstAlways(w, sample, t) ==
    IF ~sample.isData
    THEN w
    ELSE [first_msg_time |-> Some(t),
          last_msg_time |-> Some(t),
          received_count |-> w.received_count + 1,
          total_bytes |-> w.total_bytes + Len(sample.data)]

\* the isinstance check left out: every item of the batch is counted
ProcessSample_NoFilter(w, sample, t) ==
    [first_msg_time |-> IF w.first_msg_time = None THEN Some(t) ELSE w.first_msg_time,
     last_msg_time |-> Some(t),
     received_count |-> w.received_count + 1,
     total_bytes |-> w.total_bytes + Len(sample.data)]

\* lines 91-101, one sample of the batch; w is the reception window
ProcessSample(w, sample, t) ==
    IF ~sample.isData
    THEN w
    ELSE [first_msg_time |-> IF w.first_msg_time = None THEN Some(t) ELSE w.first_msg_time,
          last_msg_time |-> Some(t),
          received_count |-> w.received_count + 1,
          total_bytes |-> w.total_bytes + Len(sample.data)]

\* lines 91-101, the for loop over the batch
RECURSIVE ProcessSamples(_, _, _)
ProcessSamples(w, batch, t) ==
    IF batch = <<>>
    THEN w
    ELSE ProcessSamples(ProcessSample(w, Head(batch), t), Tail(batch), t)

Window ==
    [first_msg_time |-> first_msg_time, last_msg_time |-> last_msg_time,
     received_count |-> received_count, total_bytes |-> total_bytes]

\* lines 86-108: take a batch; count it at one timestamp, or go to the back-off
SubTake ==
    /\ subPc = "take"
    /\ samples' = Take(queue, TakeBatch)
    /\ queue' = AfterTake(queue, TakeBatch)
    /\ IF samples' # <<>>
       THEN LET w == ProcessSamples(Window, samples', now)
            IN /\ first_msg_time' = w.first_msg_time
               /\ last_msg_time' = w.last_msg_time
               /\ received_count' = w.received_count
               /\ total_bytes' = w.total_bytes
               /\ subPc' = "while"
       ELSE /\ UNCHANGED <<first_msg_time, last_msg_time, received_count, total_bytes>>
            /\ subPc' = "sleep"
    /\ UNCHANGED <<now, arrivedData, arrivedNotices, arrivedSizes, pubVars, subArgs,
                   start_wait, timedOut, subResult>>

\* the back-off going straight to the next take, past the timeout check
SubSleep_SkipsCheck ==
    /\ subPc = "sleep"
    /\ subPc' = "take"
    /\ UNCHANGED <<now, transportVars, pubVars, subArgs, received_count, total_bytes,
                   first_msg_time, last_msg_time, start_wait, samples, timedOut, subResult>>

\* line 108: time.sleep(0.001) returns; a millisecond is below the clock's second
SubSleep ==
    /\ subPc = "sleep"
    /\ subPc' = "while"
    /\ UNCHANGED <<now, transportVars, pubVars, subArgs, received_count, total_bytes,
                   first_msg_time, last_msg_time, start_wait, samples, timedOut, subResult>>

\* no sentinel: a zero-width window reported as rate 0
Throughput_NoSentinel(first, last, received, bytes) ==
    IF Truthy(first) /\ Truthy(last) /\ received > 1
    THEN LET elapsed == last[1] - first[1]
         IN IF elapsed > 0
            THEN [elapsed |-> elapsed,
                  msgs |-> Frac(received - 1, elapsed),
                  mbps |-> FracDiv(Frac(bytes, elapsed), BytesPerMiB)]
            ELSE [elapsed |-> elapsed, msgs |-> Zero, mbps |-> Zero]
    ELSE [elapsed |-> 0, msgs |-> Zero, mbps |-> Zero]

\* the byte rate in decimal megabytes
Throughput_DecimalMB(first, last, received, bytes) ==
    IF Truthy(first) /\ Truthy(last) /\ received > 1
    THEN LET elapsed == last[1] - first[1]
         IN IF elapsed > 0
            THEN [elapsed |-> elapsed,
                  msgs |-> Frac(received - 1, elapsed),
                  mbps |-> FracDiv(Frac(bytes, elapsed), 1000 * 1000)]
            ELSE [elapsed |-> elapsed, msgs |-> Inf, mbps |-> Inf]
    ELSE [elapsed |-> 0, msgs |-> Zero, mbps |-> Zero]

\* the window measured from one message on: received > 0 where the code has > 1
Throughput_FromOne(first, last, received, bytes) ==
    IF Truthy(first) /\ Truthy(last) /\ received > 0
    THEN LET elapsed == last[1] - first[1]
         IN IF elapsed > 0
            THEN [elapsed |-> elapsed,
                  msgs |-> Frac(received - 1, elapsed),
                  mbps |-> FracDiv(Frac(bytes, elapsed), BytesPerMiB)]
            ELSE [elapsed |-> elapsed, msgs |-> Inf, mbps |-> Inf]
    ELSE [elapsed |-> 0, msgs |-> Zero, mbps |-> Zero]

\* lines 110-123: elapsed and the two throughput figures
Throughput(first, last, received, bytes) ==
    IF Truthy(first) /\ Truthy(last) /\ received > 1
    THEN LET elapsed == last[1] - first[1]
         IN IF elapsed > 0
            THEN [elapsed |-> elapsed,
                  msgs |-> Frac(received - 1, elapsed),
                  mbps |-> FracDiv(Frac(bytes, elapsed), BytesPerMiB)]
            ELSE [elapsed |-> elapsed, msgs |-> Inf, mbps |-> Inf]
    ELSE [elapsed |-> 0, msgs |-> Zero, mbps |-> Zero]

\* the loss computed whenever nothing is in excess: <= where the code has <
LossRate_AlsoComplete(count, received) ==
    IF received <= count
    THEN Some(FracMul(Frac(count - received, count), Percent))
    ELSE None

\* the share received in place of the share lost
LossRate_OfReceived(count, received) ==
    IF received < count
    THEN Some(FracMul(Frac(received, count), Percent))
    ELSE None

\* lines 133-135: the loss percentage, when messages are missing
LossRate(count, received) ==
    IF received < count
    THEN Some(FracMul(Frac(count - received, count), Percent))
    ELSE None

\* lines 110-135: the subscriber's report
Report(first, last, received, bytes, count) ==
    LET t == Throughput(first, last, received, bytes)
    IN [received |-> received, bytes |-> bytes, elapsed |-> t.elapsed,
        msgs |-> t.msgs, mbps |-> t.mbps, mbits |-> FracMul(t.mbps, BitsPerByte),
        loss |-> LossRate(count, received)]

SubCalc ==
    /\ subPc = "calc"
    /\ subResult' = Some(Report(first_msg_time, last_msg_time, received_count,
                                total_bytes, subArgs.count))
    /\ subPc' = "done"
    /\ UNCHANGED <<now, transportVars, pubVars, subArgs, received_count, total_bytes,
                   first_msg_time, last_msg_time, start_wait, samples, timedOut>>

\* ------------------------------------------------------------ environment
\* the publisher is in a time.sleep that has not run its length
PubAsleep == pubPc \in {"connecting", "sleeping", "draining"} /\ now < pubWake

\* one second passes; the clock is followed up to MaxTime, and beyond it for as
\* long as a sleep is still to end
Tick ==
    /\ now < MaxTime \/ PubAsleep
    /\ now' = now + 1
    /\ UNCHANGED <<transportVars, pubVars, subVars>>

\* the DataReader exists from line 64 until main() returns
ReaderAlive == subPc # "done"

\* a remote writer's sample, of one of the given sizes, reaches the reader's history
DeliverSized(sizes) ==
    /\ ReaderAlive
    /\ arrivedData < MaxData
    /\ \E size \in sizes :
          /\ queue' = Append(queue, BenchmarkData(make_data_bytes(size)))
          /\ arrivedSizes' = arrivedSizes \cup {size}
    /\ arrivedData' = arrivedData + 1
    /\ UNCHANGED <<now, arrivedNotices, pubVars, subVars>>

DeliverData == DeliverSized(0..MaxSize)

\* the same with every payload of one length: the length of a payload plays no
\* part in how the receive loop goes on
DeliverFullSize == DeliverSized({MaxSize})

\* a remote instance is disposed or unregistered: the reader gets an invalid sample
DeliverNotice ==
    /\ ReaderAlive
    /\ arrivedNotices < MaxNotices
    /\ queue' = Append(queue, InvalidSample)
    /\ arrivedNotices' = arrivedNotices + 1
    /\ UNCHANGED <<now, arrivedData, arrivedSizes, pubVars, subVars>>

\* --------------------------------------------------------- specifications
\* perf_counter() counts from before the process started: it is never 0
InitCommon ==
    /\ now = 1
    /\ queue = <<>>
    /\ arrivedData = 0
    /\ arrivedNotices = 0
    /\ arrivedSizes = {}
    /\ msg = None
    /\ interval = 0
    /\ start_time = None
    /\ i = 0
    /\ sleep_time = 0
    /\ pubWake = 0
    /\ sendLog = <<>>
    /\ pubResult = None
    /\ samples = <<>>
    /\ timedOut = FALSE
    /\ subResult = None

\* dds_sub.py lines 72-77: the counters are zero, start_wait is taken
SubStarted ==
    /\ received_count = 0
    /\ total_bytes = 0
    /\ first_msg_time = None
    /\ last_msg_time = None
    /\ start_wait = Some(now)
    /\ subPc = "while"

\* no subscriber process
SubOff ==
    /\ received_count = 0
    /\ total_bytes = 0
    /\ first_msg_time = None
    /\ last_msg_time = None
    /\ start_wait = None
    /\ subPc = "off"

PubArgs == [size : 0..MaxSize, count : 0..MaxCount, rate : Rates, qos : Qos]
SubArgs == [count : 0..MaxCount, timeout : 0..MaxTimeout]
NoPubArgs == [size |-> 0, count |-> 0, rate |-> <<0, 1>>, qos |-> "reliable"]
NoSubArgs == [count |-> 0, timeout |-> 0]

\* the subscriber alone, fed by remote writers
SubInit ==
    /\ InitCommon
    /\ subArgs \in SubArgs
    /\ SubStarted
    /\ pubArgs = NoPubArgs
    /\ pubPc = "off"

SubNext ==
    \/ SubLoop
    \/ SubTake
    \/ SubSleep
    \/ SubCalc
    \/ DeliverData
    \/ DeliverNotice
    \/ Tick

SubSpec == SubInit /\ [][SubNext]_vars

\* the subscriber alone, kept running, with a clock that keeps advancing
SubFairNext ==
    \/ SubLoop
    \/ SubTake
    \/ SubSleep
    \/ SubCalc
    \/ DeliverFullSize
    \/ DeliverNotice
    \/ Tick

SubFairSpec ==
    /\ SubInit
    /\ [][SubFairNext]_vars
    /\ WF_vars(SubLoop) /\ WF_vars(SubTake) /\ WF_vars(SubSleep) /\ WF_vars(SubCalc)
    /\ WF_vars(Tick)

\* the publisher alone
PubInit ==
    /\ InitCommon
    /\ pubArgs \in PubArgs
    /\ pubPc = "start"
    /\ subArgs = NoSubArgs
    /\ SubOff

PubNext ==
    \/ PubStart
    \/ PubBegin
    \/ PubWrite
    \/ PubWriteLost
    \/ PubWriteFail
    \/ PubPace
    \/ PubWakeUp
    \/ PubFinish
    \/ PubDrained
    \/ Tick

PubSpec == PubInit /\ [][PubNext]_vars

\* the clock never gets this far from its first reading when rate is 0
LongTimeout == MaxTime + PreRollSeconds + DrainSeconds

\* publisher and subscriber over a loopback transport that loses nothing:
\* unlimited rate, the same count on both sides, a timeout longer than the run
LoopInit ==
    /\ InitCommon
    /\ pubArgs \in {a \in PubArgs : a.rate[1] = 0}
    /\ pubPc = "start"
    /\ subArgs = [count |-> pubArgs.count, timeout |-> LongTimeout]
    /\ SubStarted

LoopNext ==
    \/ PubStart
    \/ PubBegin
    \/ PubWrite
    \/ PubFinish
    \/ PubDrained
    \/ SubLoop
    \/ SubTake
    \/ SubSleep
    \/ SubCalc
    \/ Tick

\* both processes keep running and the clock keeps advancing
LoopSpec ==
    /\ LoopInit
    /\ [][LoopNext]_vars
    /\ WF_vars(PubStart) /\ WF_vars(PubBegin) /\ WF_vars(PubWrite)
    /\ WF_vars(PubFinish) /\ WF_vars(PubDrained)
    /\ WF_vars(SubLoop) /\ WF_vars(SubTake) /\ WF_vars(SubSleep) /\ WF_vars(SubCalc)
    /\ WF_vars(Tick)

\* the publisher alone, unlimited rate, nothing lost, with payloads that are
\* short or just long enough for the byte values to start again from 0
PayloadSizes == (0..MaxSize) \cup {ByteValues + s : s \in 0..MaxSize}

PayloadInit ==
    /\ InitCommon
    /\ pubArgs \in {a \in [size : PayloadSizes, count : 0..MaxCount,
                            rate : Rates, qos : Qos] : a.rate[1] = 0}
    /\ pubPc = "start"
    /\ subArgs = NoSubArgs
    /\ SubOff

PayloadNext ==
    \/ PubStart
    \/ PubBegin
    \/ PubWrite
    \/ PubFinish
    \/ PubDrained
    \/ Tick

PayloadSpec == PayloadInit /\ [][PayloadNext]_vars

\* ------------------------------------------------------------- properties
\* the data samples / payload bytes of a batch, counted apart from the loop
NumValid(batch) == Cardinality({j \in 1..Len(batch) : batch[j].isData})
RECURSIVE SumLen(_)
SumLen(batch) ==
    IF batch = <<>> THEN 0
    ELSE (IF Head(batch).isData THEN Len(Head(batch).data) ELSE 0) + SumLen(Tail(batch))

\* the valid data samples the transport has handed to the subscriber so far
Delivered == arrivedData - NumValid(queue)

SubDone == subPc = "done"
SubReport == subResult[1]

\* C1: when the subscriber ends having been handed only k < count valid data
\* samples, it ended through the timeout, with received_count = k, and the loss
\* it reports is (count - k) / count * 100.
C1_TimeoutOutcome ==
    (SubDone /\ Delivered < subArgs.count) =>
        /\ timedOut
        /\ received_count = Delivered
        /\ SubReport.received = Delivered
        /\ SubReport.loss # None
        /\ FracEq(SubReport.loss[1],
                  Frac((subArgs.count - Delivered) * 100, subArgs.count))

C1_Witness ==
    /\ SubDone
    /\ timedOut
    /\ subArgs.count = 2
    /\ Delivered = 1
    /\ queue = <<>>
    /\ FracEq(SubReport.loss[1], Frac(50, 1))

\* C2: when the subscriber ends having been handed exactly count valid data
\* samples, each of payload length size, it ended without timeout, with
\* received_count = count and total_bytes = count * size, and reports no loss.
C2_CompleteOutcome ==
    \A size \in 0..MaxSize :
        (SubDone /\ Delivered = subArgs.count /\ arrivedSizes \subseteq {size}) =>
            /\ ~timedOut
            /\ received_count = subArgs.count
            /\ total_bytes = subArgs.count * size
            /\ SubReport.received = subArgs.count
            /\ SubReport.bytes = subArgs.count * size
            /\ SubReport.loss = None

C2_Witness ==
    /\ SubDone
    /\ subArgs.count = 2
    /\ Delivered = 2
    /\ arrivedSizes = {1}
    /\ total_bytes = 2
    /\ SubReport.loss = None

\* C3: a take adds to received_count the number of valid data samples of the
\* batch and to total_bytes the sum of their payload lengths; a batch with no
\* valid data sample leaves the reception window as it was; and the loop goes
\* on (to the next iteration or to the back-off), whatever the batch holds.
C3_BatchEffect ==
    [][subPc = "take" /\ subPc' # "take" =>
        LET batch == Take(queue, TakeBatch)
        IN /\ samples' = batch
           /\ received_count' = received_count + NumValid(batch)
           /\ total_bytes' = total_bytes + SumLen(batch)
           /\ NumValid(batch) = 0 =>
                 UNCHANGED <<received_count, total_bytes, first_msg_time, last_msg_time>>
           /\ subPc' \in {"while", "sleep"}]_vars

\* a batch of one lifecycle notice and one valid sample has been counted as 1
C3_Witness ==
    /\ Len(samples) = 2
    /\ NumValid(samples) = 1
    /\ ~samples[1].isData
    /\ Len(samples[2].data) = 1
    /\ received_count = 1
    /\ total_bytes = 1
    /\ subPc = "while"

SubElapsed == last_msg_time[1] - first_msg_time[1]

\* C4 as stated: with received_count > 1 and elapsed > 0 the message rate
\* reported is received_count / elapsed.
C4_Original ==
    (SubDone /\ received_count > 1 /\ SubElapsed > 0) =>
        FracEq(SubReport.msgs, Frac(received_count, SubElapsed))

\* C4 as amended: with received_count > 1 and elapsed = last - first > 0 the
\* message rate reported is (received_count - 1) / elapsed, the byte rate is
\* (total_bytes / elapsed) / (1024 * 1024) and the bit rate is 8 times the byte
\* rate; 1000 messages, 1048576 bytes, elapsed 1 give 999, 1 and 8.
C4_Throughput ==
    /\ (SubDone /\ received_count > 1 /\ SubElapsed > 0) =>
          /\ SubReport.elapsed = SubElapsed
          /\ FracEq(SubReport.msgs, Frac(received_count - 1, SubElapsed))
          /\ FracEq(SubReport.mbps, Frac(total_bytes, SubElapsed * 1024 * 1024))
          /\ FracEq(SubReport.mbits, Frac(total_bytes * 8, SubElapsed * 1024 * 1024))
    /\ LET r == Report(Some(1), Some(2), 1000, 1048576, 1000)
       IN /\ FracEq(r.msgs, Frac(999, 1))
          /\ FracEq(r.mbps, Frac(1, 1))
          /\ FracEq(r.mbits, Frac(8, 1))

C4_Witness ==
    /\ SubDone
    /\ received_count = 2
    /\ total_bytes = 2
    /\ SubElapsed = 2
    /\ FracEq(SubReport.msgs, Frac(1, 2))

\* C5: when the subscriber ends with received_count <= 1, by timeout or not,
\* it reports elapsed 0 and message, byte and bit rates 0.
C5_Degenerate ==
    (SubDone /\ received_count <= 1) =>
        /\ SubReport.elapsed = 0
        /\ FracEq(SubReport.msgs, Zero)
        /\ FracEq(SubReport.mbps, Zero)
        /\ FracEq(SubReport.mbits, Zero)

C5_Witness ==
    /\ SubDone
    /\ received_count = 1
    /\ total_bytes = 1
    /\ first_msg_time # None
    /\ SubReport.elapsed = 0
    /\ SubReport.msgs = Zero

\* C6: over the lossless loopback, with the same count N on both sides,
\* unlimited rate and a timeout longer than the run, the subscriber always
\* ends, and ends complete: no timeout, received_count = N, total_bytes =
\* N * size, no loss reported.
C6_EndToEnd ==
    /\ <>SubDone
    /\ [](SubDone =>
            /\ ~timedOut
            /\ received_count = pubArgs.count
            /\ total_bytes = pubArgs.count * pubArgs.size
            /\ SubReport.received = pubArgs.count
            /\ SubReport.bytes = pubArgs.count * pubArgs.size
            /\ SubReport.loss = None)

C6_Witness ==
    /\ SubDone
    /\ pubArgs.count = 2
    /\ pubArgs.size = 1
    /\ Len(sendLog) = 2
    /\ received_count = 2
    /\ total_bytes = 2
    /\ ~timedOut

PubStarted == pubPc \notin {"start", "connecting"}
PubLoopOver == pubPc \in {"draining", "done", "crashed"}

\* C7: the sends are made in index order 0, 1, 2, ..., one per iteration, count
\* of them when the loop is over; and with rate > 0 the send of message j is
\* made no earlier than j * interval after start_time.
C7_OrderAndPacing ==
    /\ \A j \in 1..Len(sendLog) :
          /\ sendLog[j].idx = j - 1
          /\ interval > 0 => sendLog[j].at - start_time[1] >= (j - 1) * interval
    /\ pubPc = "loop" => Len(sendLog) = i
    /\ pubPc \in {"pace", "sleeping"} => Len(sendLog) = i + 1
    /\ PubLoopOver => Len(sendLog) = pubArgs.count

C7_Witness ==
    /\ PubLoopOver
    /\ pubArgs.count = 2
    /\ interval = 1
    /\ Len(sendLog) = 2
    /\ sendLog[2].at = start_time[1] + 1

Max(a, b) == IF a >= b THEN a ELSE b

\* the wait the pacing step applies: the sleep it starts, or none
WaitApplied == IF pubPc' = "sleeping" THEN pubWake' - now ELSE 0

\* C8: the pacing step after send i waits max(0, (i + 1) * interval - elapsed),
\* elapsed counted from the one start_time; the targets of consecutive sends
\* differ by interval; the wait is never negative; and when the send is late
\* the step waits 0 and goes on to the next iteration, whose send is one send.
C8_PacerSchedule ==
    [][/\ (pubPc = "pace" /\ pubPc' # "pace") =>
            LET elapsed == now - start_time[1]
                expected == (i + 1) * interval
            IN /\ interval > 0
               /\ Expected(i, interval) = expected
               /\ Expected(i + 1, interval) - Expected(i, interval) = interval
               /\ sleep_time' = expected - elapsed
               /\ WaitApplied = Max(0, expected - elapsed)
               /\ WaitApplied >= 0
               /\ elapsed >= expected => (pubPc' = "loop" /\ i' = i + 1)
               /\ sendLog' = sendLog
       /\ start_time # None => start_time' = start_time
       /\ sendLog' # sendLog =>
            /\ pubPc = "loop"
            /\ Len(sendLog') = Len(sendLog) + 1
            /\ sendLog'[Len(sendLog')].idx = i]_vars

\* a late send (elapsed beyond its target) was not waited for, and the next
\* iteration has made its one send
C8_Witness ==
    /\ interval = 1
    /\ sleep_time < 0
    /\ i = 1
    /\ Len(sendLog) = 2
    /\ pubPc = "pace"

\* C9: with rate 0 the publish loop never enters the pacing step nor a timed
\* wait: from the loop head it goes to the loop head again (after one send), to
\* the failure of the send, or out of the loop, and starts no wait before the
\* loop is over.
C9_Unlimited ==
    [][(pubArgs.rate[1] = 0 /\ PubStarted) =>
          /\ interval = 0
          /\ pubPc' \notin {"pace", "sleeping"}
          /\ (pubPc = "loop" /\ i < pubArgs.count) =>
                (pubWake' = pubWake /\ pubPc' \in {"loop", "failed"})
          /\ (pubPc = "loop" /\ pubPc' = "loop" /\ i' # i) =>
                (i' = i + 1 /\ Len(sendLog') = Len(sendLog) + 1 /\ now' = now)]_vars

C9_Witness ==
    /\ pubArgs.rate[1] = 0
    /\ pubArgs.count = 2
    /\ PubLoopOver
    /\ Len(sendLog) = 2
    /\ pubResult # None
    /\ sendLog[1].at = start_time[1]
    /\ sendLog[2].at = start_time[1]

\* C10: a send that raised is the last send attempted: the publisher is in the
\* failed state, has produced no result, and nothing follows.
C10_SendFailureFatal ==
    [][/\ \A j \in 1..Len(sendLog') :
            ~sendLog'[j].ok =>
                /\ j = Len(sendLog')
                /\ pubPc' = "failed"
                /\ pubResult' = None
       /\ pubPc = "failed" => (pubPc' = "failed" /\ sendLog' = sendLog /\ i' = i)]_vars

C10_Witness ==
    /\ pubPc = "failed"
    /\ pubArgs.count = 2
    /\ Len(sendLog) = 1
    /\ ~sendLog[1].ok
    /\ pubResult = None
    /\ now > sendLog[1].at

\* the payload a message holds is size bytes, the byte at index k being the
\* one value of 0..255 that differs from k by a multiple of 256
IsPayload(data, size) ==
    /\ Len(data) = size
    /\ \A k \in 0..(size - 1) :
          /\ data[k + 1] \in 0..(ByteValues - 1)
          /\ \E q \in 0..(size \div ByteValues) : k = data[k + 1] + ByteValues * q

\* C11: make_data_bytes(size) is size bytes long with byte k equal to k mod 256;
\* the publisher builds it once, and every send puts that same payload on the
\* transport.
C11_Payload ==
    [][/\ msg' # None =>
            /\ msg'.isData
            /\ IsPayload(msg'.data, pubArgs.size)
            /\ \A j \in 1..Len(queue') : queue'[j] = msg'
       /\ msg # None => msg' = msg
       /\ Len(queue') = Len(sendLog')]_vars

C11_Witness ==
    /\ pubArgs.size = ByteValues + 1
    /\ pubArgs.count = 2
    /\ Len(queue) = 2
    /\ queue[1] = queue[2]
    /\ queue[2].data[ByteValues] = ByteValues - 1
    /\ queue[2].data[ByteValues + 1] = 0
    /\ PubLoopOver

\* C15: whatever the transport delivers, the receive loop ends; it ends either
\* complete (received_count >= count) or by the timeout, seen at the top of an
\* iteration with now - start_wait > timeout, never both; and once the timeout
\* was seen nothing more is taken.
C15_Termination ==
    /\ <>SubDone
    /\ [](subPc \in {"calc", "done"} => (timedOut <=> received_count < subArgs.count))
    /\ [][/\ (timedOut' /\ ~timedOut) =>
                (subPc = "while" /\ now - start_wait[1] > subArgs.timeout)
          /\ timedOut' =>
                (samples' = samples /\ received_count' = received_count
                 /\ subPc' \in {"calc", "done"})]_vars

\* the loop ended by the timeout although only lifecycle notices ever arrived
C15_Witness ==
    /\ SubDone
    /\ timedOut
    /\ arrivedData = 0
    /\ arrivedNotices = 1
    /\ Len(samples) = 1
    /\ received_count = 0
    /\ subArgs.count = 2

\* the batch of the last take held a valid data sample
BatchCounted(batch) == NumValid(batch) > 0

\* C13 as stated: every non-empty batch sets last_msg_time to its arrival
\* instant, and the first non-empty batch sets first_msg_time.
C13_Original ==
    [][(subPc = "take" /\ subPc' # "take" /\ Take(queue, TakeBatch) # <<>>) =>
          /\ last_msg_time' = Some(now)
          /\ first_msg_time' = IF first_msg_time = None THEN Some(now)
                               ELSE first_msg_time]_vars

\* C13 as amended: first_msg_time is set once, by the first batch that holds a
\* valid data sample, and never changes afterwards; last_msg_time is set to the
\* arrival instant of every batch that holds a valid data sample; a batch of
\* lifecycle notices only, or an empty one, changes neither.
C13_Window ==
    [][/\ first_msg_time # None => first_msg_time' = first_msg_time
       /\ LET batch == Take(queue, TakeBatch)
          IN IF subPc = "take" /\ subPc' # "take" /\ BatchCounted(batch)
             THEN /\ last_msg_time' = Some(now)
                  /\ first_msg_time = None => first_msg_time' = Some(now)
             ELSE UNCHANGED <<first_msg_time, last_msg_time>>]_vars

\* two counted batches at different instants and a notice taken before the
\* second of them
C13_Witness ==
    /\ first_msg_time = Some(1)
    /\ last_msg_time = Some(3)
    /\ received_count = 2
    /\ arrivedNotices = 1
    /\ Len(samples) = 1
    /\ queue = <<>>
    /\ subPc = "calc"

\* C14: when the loop ends with received_count > 1 and last_msg_time =
\* first_msg_time, as it does whenever every counted sample came in one batch,
\* elapsed is 0 and message, byte and bit rates are reported as infinity.
C14_ZeroWidth ==
    /\ (received_count > 1 /\ NumValid(samples) = received_count) =>
          last_msg_time = first_msg_time
    /\ (SubDone /\ received_count > 1 /\ last_msg_time = first_msg_time) =>
          /\ SubReport.elapsed = 0
          /\ SubReport.msgs = Inf
          /\ SubReport.mbps = Inf
          /\ SubReport.mbits = Inf

C14_Witness ==
    /\ SubDone
    /\ received_count = 2
    /\ NumValid(samples) = 2
    /\ total_bytes = 1
    /\ SubReport.msgs = Inf
    /\ SubReport.mbits = Inf

\* C16 as stated: received_count never exceeds count.
C16_Original == received_count <= subArgs.count

\* C16 as amended: received_count is below count whenever a take is made, so
\* it exceeds count by less than the number of valid samples of the last batch
\* (at most 1000 - 1), and it does not exceed count when the transport has had
\* no more than count data samples for the reader.
C16_Bound ==
    /\ subPc = "take" => received_count < subArgs.count
    /\ received_count > subArgs.count =>
          /\ received_count - NumValid(samples) < subArgs.count
          /\ received_count < subArgs.count + TakeBatch
    /\ arrivedData <= subArgs.count => received_count <= subArgs.count

\* one sample expected, two taken in one batch
C16_Witness ==
    /\ SubDone
    /\ subArgs.count = 1
    /\ received_count = 2
    /\ ~timedOut
    /\ SubReport.loss = None

\* C17: at the end of a run a loss rate is reported if and only if the loop
\* ended by the timeout, which is if and only if received_count < count; and
\* then count > 0 and 0 < loss rate <= 100.
C17_LossOnTimeout ==
    SubDone =>
        /\ SubReport.loss # None <=> timedOut
        /\ SubReport.loss # None <=> received_count < subArgs.count
        /\ SubReport.loss # None =>
              LET loss == SubReport.loss[1]
              IN /\ subArgs.count > 0
                 /\ loss[2] > 0
                 /\ loss[1] > 0
                 /\ loss[1] <= 100 * loss[2]

C17_Witness ==
    /\ SubDone
    /\ timedOut
    /\ subArgs.count = 2
    /\ received_count = 0
    /\ FracEq(SubReport.loss[1], Frac(100, 1))

\* the phases of dds_pub.py's main() after the loop has begun
Sending == {"loop", "pace", "sleeping"}

\* C12 as stated: a publisher run goes through the pre-roll wait, the reading
\* of start_time, the count sends, the reading of the end instant and the
\* drain wait, in this order; the drain wait is made if and only if the QoS is
\* reliable, after the last send; elapsed is the end instant less start_time,
\* so neither wait is inside it. (A run ended by a failed send stops there.)
C12_Original ==
    [][/\ pubPc = "start" =>
            /\ pubPc' \in {"start", "connecting"}
            /\ sendLog' = <<>> /\ start_time' = None
            /\ pubPc' = "connecting" => pubWake' = now + PreRollSeconds
       /\ pubPc = "connecting" =>
            /\ pubPc' \in {"connecting", "loop"}
            /\ sendLog' = <<>>
            /\ pubPc' = "loop" => (now >= pubWake /\ start_time' = Some(now))
       /\ sendLog' # sendLog =>
            /\ pubPc \in Sending
            /\ start_time # None
            /\ sendLog'[Len(sendLog')].at >= start_time[1]
       /\ pubPc \in Sending =>
            /\ pubPc' \in Sending \cup {"failed", "draining", "done"}
            /\ pubResult' # pubResult <=> pubPc' \in {"draining", "done"}
            /\ pubPc' \in {"draining", "done"} =>
                  /\ Len(sendLog) = pubArgs.count
                  /\ sendLog' = sendLog
                  /\ pubResult' # None
                  /\ pubResult'[1].elapsed = now - start_time[1]
                  /\ pubPc' = "draining" <=> pubArgs.qos = "reliable"
                  /\ pubPc' = "draining" => pubWake' = now + DrainSeconds
       /\ pubPc = "draining" =>
            /\ pubPc' \in {"draining", "done"}
            /\ pubPc' = "done" => now >= pubWake
            /\ UNCHANGED <<sendLog, pubResult, pubWake>>
       /\ pubPc \in {"done", "failed"} => UNCHANGED pubVars]_vars

\* C18: with rate > 0 and count >= 1 the pacing wait is made after the last
\* send too, so elapsed >= count * interval and the reported message rate
\* count / elapsed is at most rate.
C18_RateCeiling ==
    (pubResult # None /\ pubArgs.rate[1] > 0 /\ pubArgs.count >= 1) =>
        LET r == pubResult[1]
            last == sendLog[Len(sendLog)]
        IN /\ Len(sendLog) = pubArgs.count
           /\ r.elapsed >= pubArgs.count * interval
           /\ last.idx = pubArgs.count - 1
           /\ now >= start_time[1] + Expected(last.idx, interval)
           /\ r.msgs[2] > 0
           /\ r.msgs[1] * pubArgs.rate[2] <= pubArgs.rate[1] * r.msgs[2]

\* two sends at one message per 2 s: the second send is made on time, the run
\* is measured as 4 s and the rate reported is the target rate
C18_Witness ==
    /\ pubResult # None
    /\ pubArgs.count = 2
    /\ pubArgs.rate = <<1, 2>>
    /\ sendLog[2].at - start_time[1] = 2
    /\ pubResult[1].elapsed = 4
    /\ FracEq(pubResult[1].msgs, pubArgs.rate)

\* C19 as stated: whatever count, size and rate, the publisher's message and
\* byte rates are computed without a division by zero, count = 0 and a clock
\* that has not advanced since start_time included.
C19_Original ==
    PubLoopOver =>
        /\ pubPc # "crashed"
        /\ pubResult # None
        /\ pubResult[1].msgs[2] # 0
        /\ pubResult[1].mbps[2] # 0

====
